---- MODULE Spec2Model ----
(***************************************************************************)
(* The upload-to-report pipeline of src/api/main.py: the request handler   *)
(* submit_file (POST /api/submit) and the background worker                *)
(* process_file_worker it starts, one thread per accepted upload.          *)
(*                                                                         *)
(* The collaborators imported at main.py:18-23 (config, database,          *)
(* file_processor, openai_client, metrics, email_service) are not part of  *)
(* the source tree; each call into them is a step that either returns or   *)
(* raises, and what they compute is taken from spec.md.                    *)
(***************************************************************************)
EXTENDS Integers, Sequences, FiniteSets, TLC

\* ------------------------------------------------------------------ bounds
MaxReq == 2      \* uploads posted to /api/submit
MaxRows == 2     \* valid rows of the largest spreadsheet

Requests == 1..MaxReq

\* ------------------------------------------------------------ request data
\* The email form field: one address EMAIL_REGEX accepts and one it does not.
Emails == {"user@site.io", "not-an-email"}

\* config.EMAIL_REGEX.match(email)
EMAIL_REGEX_match(email) == email = "user@site.io"

\* An uploaded file, by what the pipeline can observe of it: kind "rows" is a
\* well-formed spreadsheet with n = MaxRows valid rows, kind "oversized" is above the size ceiling, and kind "malformed" is
\* any file the Ingestor refuses (an unsupported format, a required column
\* missing, not parseable as a table, or no valid row): main.py has one path
\* for all of these, the exception of process_file.
BadKinds == {"oversized", "malformed"}

Uploads ==
  {[kind |-> k, n |-> 0] : k \in BadKinds}
    \cup {[kind |-> "rows", n |-> MaxRows]}

NoUpload == [kind |-> "none", n |-> 0]

\* FileProcessor.validate_file_size(content, MAX_UPLOAD_MB): TRUE when it
\* returns, FALSE when it raises ValueError.
validate_file_size(content) == content.kind # "oversized"

\* hashlib.sha256(content).hexdigest(): distinct uploads, distinct digests.
sha256(content) == <<"sha256", content.kind, content.n>>

NoHash == <<"sha256", "none", 0>>

\* -------------------------------------------------------------- client ip
\* Header values and host names are sequences of characters.
Comma == ","
Space == " "

RECURSIVE FirstField(_)
\* forwarded_for.split(",")[0]
FirstField(s) ==
  IF s = <<>> \/ Head(s) = Comma THEN <<>> ELSE <<Head(s)>> \o FirstField(Tail(s))

RECURSIVE LStrip(_)
LStrip(s) == IF s # <<>> /\ Head(s) = Space THEN LStrip(Tail(s)) ELSE s

RECURSIVE RStrip(_)
RStrip(s) ==
  IF s # <<>> /\ s[Len(s)] = Space THEN RStrip(SubSeq(s, 1, Len(s) - 1)) ELSE s

\* str.strip()
Strip(s) == RStrip(LStrip(s))

DefaultIp == <<"0", ".", "0", ".", "0", ".", "0">>

\* get_client_ip(request); an absent header and an absent peer are <<>>.
get_client_ip(forwarded_for, client) ==
  IF forwarded_for # <<>> THEN Strip(FirstField(forwarded_for))
  ELSE IF client # <<>> THEN client
  ELSE DefaultIp

ForwardedFor == {<<" ", "b", " ", ",", "a">>}
Peers == {<<"a">>}
NoIp == <<>>

\* ------------------------------------------------------- geo-prompt builder
\* Text is a sequence of pieces (strings).
country_prompts ==
  {<<<<"USA">>, <<"Answer as if responding to someone in the United States">>>>,
   <<<<"UK">>, <<"Answer as if responding to someone in the United Kingdom">>>>,
   <<<<"Germany">>, <<"Answer as if responding to someone in Germany, auf Deutsch wenn nötig">>>>,
   <<<<"France">>, <<"Answer as if responding to someone in France, en français si nécessaire">>>>,
   <<<<"Canada">>, <<"Answer as if responding to someone in Canada">>>>,
   <<<<"Australia">>, <<"Answer as if responding to someone in Australia">>>>}

\* create_geo_targeted_prompt with a blank country taken as "no targeting":
\* the prompt is returned as it is.
create_geo_targeted_prompt_skips_blank(prompt, country) ==
  LET known == {e \in country_prompts : e[1] = country}
      geo_context ==
        IF known # {} THEN (CHOOSE e \in known : TRUE)[2]
        ELSE <<"Answer as if responding to someone in ">> \o country
  IN IF country = <<>> THEN prompt ELSE geo_context \o <<": ">> \o prompt

\* create_geo_targeted_prompt(prompt, country)
create_geo_targeted_prompt(prompt, country) ==
  LET known == {e \in country_prompts : e[1] = country}
      geo_context ==
        IF known # {} THEN (CHOOSE e \in known : TRUE)[2]
        ELSE <<"Answer as if responding to someone in ">> \o country
  IN geo_context \o <<": ">> \o prompt

\* ------------------------------------------------------------ collaborators
\* The k-th valid row of a spreadsheet, as FileProcessor.process_file yields it.
QueryRow(k) ==
  IF k % 2 = 1
  THEN [Country |-> <<"UK">>, Prompt |-> <<"best kettle">>, target_domain |-> "kettle.co.uk"]
  ELSE [Country |-> <<"Spain">>, Prompt |-> <<"mejor aspiradora">>, target_domain |-> "aspira.es"]

\* FileProcessor.process_file(file_path) on a file holding `content`:
\* ok = FALSE when it raises (unsupported extension, missing columns,
\* unreadable table, no valid row left), else the rows in file order.
process_file(content) ==
  IF content.kind = "rows" /\ content.n >= 1
  THEN [ok |-> TRUE, queries_df |-> [k \in 1..content.n |-> QueryRow(k)]]
  ELSE [ok |-> FALSE, queries_df |-> <<>>]

\* db.check_ip_file_access(ip, file_hash, allow_retry_same_file): the ways the
\* call can end given the guard's store. "admit" returns, "deny" raises
\* PermissionError, "error" raises anything else (the store is unreachable).
check_ip_file_access(entries, ip, file_hash, allow_retry_same_file) ==
  {"error"} \cup
    (IF <<ip, file_hash>> \in entries
     THEN (IF allow_retry_same_file THEN {"admit"} ELSE {"deny"})
     ELSE IF \E e \in entries : e[1] = ip
     THEN {"admit", "deny"}     \* another file of this client: rate limit window
     ELSE {"admit"})

\* ------------------------------------------------------------------- state
VARIABLES
  ALLOW_RETRY_SAME_FILE,  \* config flag, fixed for the life of the process
  req,                    \* per request: where submit_file is and what it holds
  loop,                   \* the request the event loop is running, 0 when idle
  guard_store,            \* abuse-guard entries <<client identity, fingerprint>>
  disk,                   \* temporary files: path -> what is on disk there
  job,                    \* per request: the worker thread it started
  email_db,               \* records written by db.save_email
  outbox,                 \* the calls made to the delivery collaborator
  call                    \* a call of a helper function: its arguments and result

vars ==
  <<ALLOW_RETRY_SAME_FILE, req, loop, guard_store, disk, job, email_db, outbox, call>>

Paths == 1..MaxReq

NoFile == [exists |-> FALSE, content |-> NoUpload]

NoJob ==
  [pc |-> "none", file_path |-> 0, email |-> "", ip |-> NoIp, i |-> 0,
   queries_df |-> <<>>, searched |-> <<>>, results |-> <<>>, assembled |-> FALSE,
   saves |-> 0, sends |-> 0, removes |-> 0, remove_raised |-> FALSE,
   error |-> "none"]

NoRequest ==
  [pc |-> "idle", email |-> "", content |-> NoUpload, forwarded_for |-> <<>>,
   client |-> <<>>, client_ip |-> NoIp, guard |-> "none", temp_file_path |-> 0, started |-> FALSE, status |-> 0,
   detail |-> ""]

\* No helper is being called on its own.
NoCall == [f |-> "none", args |-> <<>>, returned |-> FALSE, result |-> <<>>]

Init ==
  /\ call = NoCall
  /\ ALLOW_RETRY_SAME_FILE \in BOOLEAN
  /\ req = [r \in Requests |-> NoRequest]
  /\ loop = 0
  /\ guard_store = {}
  /\ disk = [p \in Paths |-> NoFile]
  /\ job = [r \in Requests |-> NoJob]
  /\ email_db = {}
  /\ outbox = {}

\* ------------------------------------------------------------- submit_file
\* The handler is a coroutine: it gives up the event loop only at
\* `await file.read()`; from there to its return no other handler runs, while
\* worker threads run at any time.

\* raise HTTPException(status_code, detail): the handler ends with an error.
Reply(r, status_code, detail) ==
  /\ req' = [req EXCEPT ![r].status = status_code, ![r].detail = detail, ![r].pc = "done"]
  /\ loop' = 0

\* main.py:517-518: the status the email check answers with, 0 when it passes.
EmailStatus(email) ==
  IF EMAIL_REGEX_match(email) THEN 0 ELSE 400

\* main.py:517-518, the email check that opens the handler; a request that
\* passes it waits at `await file.read()`.
SubmitEmail(r) ==
  /\ req[r].pc = "idle"
  /\ loop = 0
  /\ (IF r = 1 THEN TRUE ELSE req[r - 1].pc # "idle")   \* numbered as they arrive
  /\ \E email \in Emails :
       IF EmailStatus(email) = 0
       THEN req' = [req EXCEPT ![r].email = email, ![r].pc = "read"]
       ELSE req' = [req EXCEPT ![r].email = email, ![r].status = EmailStatus(email),
                               ![r].detail = "invalid email", ![r].pc = "done"]
  /\ UNCHANGED <<call, ALLOW_RETRY_SAME_FILE, loop, guard_store, disk, job, email_db, outbox>>

\* SizeStatus with the size check left out.
SizeStatus_unchecked(content) == 0

\* main.py:525-528: the status the size check answers with, 0 when it passes.
SizeStatus(content) ==
  IF validate_file_size(content) THEN 0 ELSE 400

\* main.py:520-528, the upload is read and its size checked.
SubmitRead(r) ==
  /\ req[r].pc = "read"
  /\ loop = 0
  /\ \/ Reply(r, 400, "file read error")                \* file.read() raises
     \/ \E content \in Uploads :
          IF SizeStatus(content) = 0
          THEN /\ req' = [req EXCEPT ![r].content = content, ![r].pc = "guard"]
               /\ loop' = r
          ELSE /\ req' = [req EXCEPT ![r].content = content,
                                     ![r].status = SizeStatus(content),
                                     ![r].detail = "file too large", ![r].pc = "done"]
               /\ loop' = 0
  /\ UNCHANGED <<call, ALLOW_RETRY_SAME_FILE, guard_store, disk, job, email_db, outbox>>

\* GuardStatus with every exception of the guard answered: a store failure
\* becomes a 500.
GuardStatus_fails_closed(outcome) ==
  IF outcome = "deny" THEN 429 ELSE IF outcome = "error" THEN 500 ELSE 0

\* GuardStatus with PermissionError caught by the general handler and passed
\* over like any other exception.
GuardStatus_passes_denial(outcome) == 0

\* What submit_file does with the way db.check_ip_file_access ended
\* (main.py:533-539): the status it answers with, 0 when it goes on. Only
\* PermissionError is answered (429); any other exception is printed and
\* passed over.
GuardStatus(outcome) ==
  IF outcome = "deny" THEN 429 ELSE 0

\* RetryFlag with the configured value ignored.
RetryFlag_always == TRUE

\* The flag submit_file hands to the Access Guard (main.py:534).
RetryFlag == ALLOW_RETRY_SAME_FILE

\* ClientIp with the peer's address always: the header is not looked at.
ClientIp_peer_only(forwarded_for, client) == get_client_ip(<<>>, client)

\* main.py:530, client_ip = get_client_ip(request).
ClientIp(forwarded_for, client) == get_client_ip(forwarded_for, client)

\* main.py:530-539, client identity, fingerprint and the Access Guard, for a
\* request that comes from one of `clients`, each a pair of the
\* x-forwarded-for header sent and the peer it is sent from.
SubmitGuardFrom(r, clients) ==
  /\ req[r].pc = "guard"
  /\ loop = r
  /\ \E c \in clients :
       LET forwarded_for == c[1]
           client == c[2]
           client_ip == ClientIp(forwarded_for, client)
           file_hash == sha256(req[r].content)
           asked == [req[r] EXCEPT !.forwarded_for = forwarded_for, !.client = client,
                                   !.client_ip = client_ip]
       IN \E outcome \in check_ip_file_access(guard_store, client_ip, file_hash, RetryFlag) :
            /\ guard_store' =
                 IF outcome = "admit"
                 THEN guard_store \cup {<<client_ip, file_hash>>}
                 ELSE guard_store
            /\ IF GuardStatus(outcome) # 0
               THEN /\ req' = [req EXCEPT ![r] = [asked EXCEPT !.guard = outcome,
                                                  !.status = GuardStatus(outcome),
                                                  !.detail = "access denied",
                                                  !.pc = "done"]]
                    /\ loop' = 0
               ELSE /\ req' = [req EXCEPT ![r] = [asked EXCEPT !.guard = outcome,
                                                  !.pc = "stage"]]
                    /\ loop' = loop
  /\ UNCHANGED <<call, ALLOW_RETRY_SAME_FILE, disk, job, email_db, outbox>>

\* The requests of the pipeline come through one proxy from one client.
SubmitGuard(r) == SubmitGuardFrom(r, ForwardedFor \X Peers)

\* NamedTemporaryFile with one fixed name for every upload.
NamedTemporaryFile_reused(r) == 1

\* tempfile.NamedTemporaryFile picks a name no other file has: the name made
\* for request r is r.
NamedTemporaryFile(r) == r

\* The worker thread submit_file creates (main.py:549-553).
Thread(r, temp_file_path) ==
  [NoJob EXCEPT !.pc = "parse", !.file_path = temp_file_path,
                !.email = req[r].email, !.ip = req[r].client_ip]

\* The handler's record once staging has failed (main.py:546-547): its
\* locals are gone, what is kept is the answer and how the Access Guard call
\* had ended.
Reply500(r) ==
  /\ req' = [req EXCEPT ![r] = [NoRequest EXCEPT !.guard = req[r].guard, !.status = 500,
                                                 !.detail = "file save error",
                                                 !.pc = "done"]]
  /\ loop' = 0

\* Accept with the handler joining the thread before it answers: the request
\* stays open while the job runs.
Accept_after_join(q, temp_file_path) ==
  [q EXCEPT !.temp_file_path = temp_file_path, !.started = TRUE, !.pc = "join"]

\* main.py:549-561: the handler's record once the thread is started. It
\* returns the acceptance payload at once and never joins the thread.
Accept(q, temp_file_path) ==
  [q EXCEPT !.temp_file_path = temp_file_path, !.started = TRUE, !.status = 200,
            !.detail = "processing", !.pc = "done"]

\* main.py:541-561. The bytes are staged in a named temporary file that is
\* kept on close (delete=False); creating the file can fail, and so can the
\* write, and both answer 500. Otherwise the worker thread is started and the
\* acceptance payload returned.
SubmitStage(r) ==
  /\ req[r].pc = "stage"
  /\ loop = r
  /\ \/ /\ Reply500(r)                                  \* no file was created
        /\ UNCHANGED <<disk, job>>
     \/ /\ disk' = [disk EXCEPT ![NamedTemporaryFile(r)] =   \* temp_file.write raises
                      [exists |-> TRUE, content |-> NoUpload]]
        /\ Reply500(r)
        /\ UNCHANGED job
     \/ LET temp_file_path == NamedTemporaryFile(r)
        IN /\ disk' = [disk EXCEPT ![temp_file_path] =
                         [exists |-> TRUE, content |-> req[r].content]]
           /\ job' = [job EXCEPT ![r] = Thread(r, temp_file_path)]
           /\ req' = [req EXCEPT ![r] = Accept(req[r], temp_file_path)]
           /\ loop' = 0
  /\ UNCHANGED <<call, ALLOW_RETRY_SAME_FILE, guard_store, email_db, outbox>>

\* ------------------------------------------------------ process_file_worker
\* A step of the worker is what the thread does up to and including its next
\* call into a collaborator; when that call raises, the except clause
\* (main.py:451-452, a print) and the finally clause run before anything the
\* thread does can be observed again.

\* os_remove with every temporary file removed, not the job's own only.
os_remove_all(d, file_path) == [p \in DOMAIN d |-> NoFile]

\* os.remove(file_path) inside try/except (main.py:454-457): the file is
\* gone afterwards; when it was not there the error is swallowed.
os_remove(d, file_path) == [d EXCEPT ![file_path] = NoFile]

\* main.py:453-457, the finally clause: one removal attempt, then the thread
\* ends and its locals (queries_df, results, the loop position) with it.
Finally(j) ==
  [j EXCEPT !.removes = @ + 1, !.pc = "done", !.queries_df = <<>>, !.results = <<>>,
            !.searched = <<>>, !.assembled = FALSE, !.i = 0]

\* Raise with the removal at the end of the try body instead of in a finally
\* clause: an exception skips it.
Raise_skips_cleanup(j, step) ==
  [j EXCEPT !.pc = "done", !.error = step, !.queries_df = <<>>, !.results = <<>>,
            !.searched = <<>>, !.assembled = FALSE, !.i = 0]

\* An exception raised in the try body (main.py:415-449) lands in the handler
\* at main.py:451, remembering the step that raised; the finally clause follows.
Raise(j, step) == Finally([j EXCEPT !.error = step])

\* os.remove(file_path) raises FileNotFoundError when nothing is there.
os_remove_raises(d, file_path) == ~d[file_path].exists

\* Cleanup with the removal's exception left to end the thread as any
\* uncaught exception would: the job is recorded as failed in cleanup.
Cleanup_propagates(j, raised) ==
  IF raised THEN [j EXCEPT !.remove_raised = TRUE, !.error = "cleanup"] ELSE j

\* main.py:454-457: `try: os.remove(file_path) except: pass`. Whether the
\* removal raised is all that is left of it; what the job ended as stays.
Cleanup(j, raised) == [j EXCEPT !.remove_raised = raised]

\* Worker r goes on as j; the disk changes when the step ran os.remove.
Step(r, j) ==
  LET removing == j.removes > job[r].removes
  IN /\ job' = [job EXCEPT ![r] =
                  IF removing
                  THEN Cleanup(j, os_remove_raises(disk, j.file_path))
                  ELSE j]
     /\ disk' = IF removing THEN os_remove(disk, j.file_path) ELSE disk

\* main.py:416, FileProcessor.process_file(file_path).
WorkerParse(r) ==
  /\ job[r].pc = "parse"
  /\ LET file == disk[job[r].file_path]
         parsed == process_file(file.content)
     IN Step(r, IF file.exists /\ parsed.ok
                THEN [job[r] EXCEPT !.queries_df = parsed.queries_df, !.i = 1,
                                    !.pc = IF Len(parsed.queries_df) >= 1
                                           THEN "search" ELSE "assemble"]
                ELSE Raise(job[r], "parse"))
  /\ UNCHANGED <<call, ALLOW_RETRY_SAME_FILE, req, loop, guard_store, email_db, outbox>>

\* SearchRaised with the exception caught around the loop only: the rows
\* gathered so far go on to assembly and delivery.
SearchRaised_sends_partial(j) == [j EXCEPT !.error = "search", !.pc = "assemble"]

\* SearchRaised with the call tried again for the same row.
SearchRaised_retries(j) == [j EXCEPT !.pc = "search"]

\* Where the loop goes when openai_client.search_with_web raises for a row
\* (main.py:427): nothing catches it inside the loop.
SearchRaised(j) == Raise(j, "search")

\* result_row with the rows taken from the end of the table: the record
\* appended in turn i is that of row N + 1 - i.
result_row_unordered(j) ==
  LET k == Len(j.queries_df) + 1 - j.i
      row == j.queries_df[k]
  IN [row |-> k,
      prompt |-> row.Prompt,
      geo_prompt |-> create_geo_targeted_prompt(row.Prompt, row.Country),
      sentinel |-> FALSE]

\* The record main.py:435-442 appends for row i.
result_row(j) ==
  LET row == j.queries_df[j.i]
  IN [row |-> j.i,
      prompt |-> row.Prompt,
      geo_prompt |-> create_geo_targeted_prompt(row.Prompt, row.Country),
      sentinel |-> FALSE]

\* NextRow with the loop left after its first turn.
NextRow_leaves_early(j) == [j EXCEPT !.pc = "assemble"]

\* main.py:420, the loop moves to the next row or ends.
NextRow(j) ==
  IF j.i < Len(j.queries_df)
  THEN [j EXCEPT !.i = j.i + 1, !.pc = "search"]
  ELSE [j EXCEPT !.pc = "assemble"]

\* SearchCall with the rows fanned out: the calls for row i and every row
\* after it are issued together.
SearchCall_fans_out(j) ==
  [j EXCEPT !.searched = @ \o [k \in 1..(Len(j.queries_df) - j.i + 1) |-> j.i + k - 1],
            !.pc = "searching"]

\* main.py:421-427: the thread builds row i's geo-prompt, calls
\* openai_client.search_with_web and blocks until the call ends.
SearchCall(j) ==
  [j EXCEPT !.searched = Append(@, j.i), !.pc = "searching"]

\* main.py:421-427, the Search Adapter call of row i is issued.
WorkerSearch(r) ==
  /\ job[r].pc = "search"
  /\ Step(r, SearchCall(job[r]))
  /\ UNCHANGED <<call, ALLOW_RETRY_SAME_FILE, req, loop, guard_store, email_db, outbox>>

\* main.py:427-442, the rest of one turn of the loop: the Search Adapter call
\* ends, the Metrics Engine is called and the record appended.
WorkerRow(r) ==
  /\ job[r].pc = "searching"
  /\ \/ Step(r, SearchRaised(job[r]))
     \/ Step(r, Raise(job[r], "metrics"))
     \/ Step(r, NextRow([job[r] EXCEPT !.results = Append(@, result_row(job[r]))]))
  /\ UNCHANGED <<call, ALLOW_RETRY_SAME_FILE, req, loop, guard_store, email_db, outbox>>

\* main.py:444-445, the report is rendered.
WorkerAssemble(r) ==
  /\ job[r].pc = "assemble"
  /\ \/ Step(r, [job[r] EXCEPT !.assembled = TRUE, !.pc = "save_email"])
     \/ Step(r, Raise(job[r], "assemble"))
  /\ UNCHANGED <<call, ALLOW_RETRY_SAME_FILE, req, loop, guard_store, email_db, outbox>>

\* SaveRaised with the write's exception caught on the spot: the worker goes
\* on to the delivery call.
SaveRaised_goes_on(j) == [j EXCEPT !.pc = "send"]

\* Where the worker goes when db.save_email raises (main.py:447).
SaveRaised(j) == Raise(j, "save_email")

\* main.py:447, db.save_email(email, ip).
WorkerSaveEmail(r) ==
  /\ job[r].pc = "save_email"
  /\ LET called == [job[r] EXCEPT !.saves = @ + 1]
     IN \/ /\ Step(r, [called EXCEPT !.pc = "send"])
           /\ email_db' = email_db \cup {<<job[r].email, job[r].ip>>}
        \/ /\ Step(r, SaveRaised(called))
           /\ UNCHANGED email_db
  /\ UNCHANGED <<call, ALLOW_RETRY_SAME_FILE, req, loop, guard_store, outbox>>

\* The call email_service.send_report_email(email, csv_content, len(results))
\* of main.py:449, as the delivery collaborator sees it.
Delivery(r, j, accepted) ==
  [job |-> r, email |-> j.email, report |-> j.results, row_count |-> Len(j.results),
   accepted |-> accepted]

\* SendRaised with the delivery call's exception swallowed: the job ends as
\* if the report had been accepted.
SendRaised_swallowed(j) == Finally(j)

\* Where the worker goes when email_service.send_report_email raises
\* (main.py:449): to the handler at main.py:451, as from any other step.
SendRaised(j) == Raise(j, "send")

\* main.py:449, the delivery call, and the finally clause after it.
WorkerSend(r) ==
  /\ job[r].pc = "send"
  /\ LET called == [job[r] EXCEPT !.sends = @ + 1]
     IN \/ /\ Step(r, Finally(called))
           /\ outbox' = outbox \cup {Delivery(r, job[r], TRUE)}
        \/ /\ Step(r, SendRaised(called))
           /\ outbox' = outbox \cup {Delivery(r, job[r], FALSE)}
  /\ UNCHANGED <<call, ALLOW_RETRY_SAME_FILE, req, loop, guard_store, email_db>>

\* ----------------------------------------------------------- specification
Next ==
  \E r \in Requests :
    \/ SubmitEmail(r)
    \/ SubmitRead(r)
    \/ SubmitGuard(r)
    \/ SubmitStage(r)
    \/ WorkerParse(r)
    \/ WorkerSearch(r)
    \/ WorkerRow(r)
    \/ WorkerAssemble(r)
    \/ WorkerSaveEmail(r)
    \/ WorkerSend(r)

Spec == Init /\ [][Next]_vars

\* ------------------------------------------- the temp directory is cleaned
\* The temporary files live in the system's temp directory, which other
\* processes clean: os.remove can find the file gone, the case the bare
\* except at main.py:456-457 is there for. The cleaner takes the file of a
\* job before it is parsed or while the job's report is being sent.
TmpCleaner(r) ==
  /\ job[r].pc \in {"parse", "send"}
  /\ disk[job[r].file_path].exists
  /\ disk' = os_remove(disk, job[r].file_path)
  /\ UNCHANGED <<call, ALLOW_RETRY_SAME_FILE, req, loop, guard_store, job, email_db, outbox>>

NextCleaned ==
  \/ Next
  \/ \E r \in Requests : TmpCleaner(r)

SpecTmpCleaner == Init /\ [][NextCleaned]_vars

\* ------------------------------------------------ clients behind the header
\* The request path alone (the workers started are not scheduled), with
\* clients that choose their x-forwarded-for header: no header, a list whose
\* first entry is padded, a single entry that differs from it by the padding
\* only, a list with another first entry, and a list whose first entry is
\* empty, all from the same peer; and a request without header whose peer
\* the server does not know.
SpoofedFor ==
  {<<>>,
   <<" ", "b", " ", ",", "a">>,
   <<"b">>,
   <<"c", ",", "b">>,
   <<",", "a">>}

SpoofingClients ==
  {<<h, <<"a">>>> : h \in SpoofedFor} \cup {<<<<>>, <<>>>>}

NextSpoofed ==
  \E r \in Requests :
    \/ SubmitEmail(r)
    \/ SubmitRead(r)
    \/ SubmitGuardFrom(r, SpoofingClients)
    \/ SubmitStage(r)

SpecSpoofed == Init /\ [][NextSpoofed]_vars

\* ------------------------------------------ the geo-prompt builder on its own
\* create_geo_targeted_prompt called directly: the countries are the six keys
\* of country_prompts, near misses of them (case, surrounding space, another
\* name of the same country), a country without an entry and the empty
\* string; the prompts include the empty one and one holding ": " itself.
GeoCountries ==
  {<<"USA">>, <<"UK">>, <<"Germany">>, <<"France">>, <<"Canada">>, <<"Australia">>,
   <<"usa">>, <<" UK">>, <<"Deutschland">>, <<"Spain">>, <<"United Kingdom">>, <<>>}

GeoPrompts ==
  {<<>>, <<"best kettle">>, <<"mejor aspiradora">>, <<"tea", ": ", "green or black">>,
   <<" ">>}

GeoInit ==
  /\ call \in {[f |-> "create_geo_targeted_prompt", args |-> <<prompt, country>>,
                 returned |-> FALSE, result |-> <<>>] :
                  prompt \in GeoPrompts, country \in GeoCountries}
  /\ ALLOW_RETRY_SAME_FILE = FALSE
  /\ req = [r \in Requests |-> NoRequest]
  /\ loop = 0
  /\ guard_store = {}
  /\ disk = [p \in Paths |-> NoFile]
  /\ job = [r \in Requests |-> NoJob]
  /\ email_db = {}
  /\ outbox = {}

GeoApply ==
  /\ call.f = "create_geo_targeted_prompt"
  /\ ~call.returned
  /\ call' = [call EXCEPT !.returned = TRUE,
                          !.result = create_geo_targeted_prompt(call.args[1], call.args[2])]
  /\ UNCHANGED <<ALLOW_RETRY_SAME_FILE, req, loop, guard_store, disk, job, email_db, outbox>>

SpecGeo == GeoInit /\ [][GeoApply]_vars

\* The orchestrator's state of spec.md 4.5, read off the worker's position.
JobState(j) ==
  CASE j.pc = "none" -> "none"
    [] j.pc = "parse" -> "Parsing"
    [] j.pc \in {"search", "searching"} -> "Processing"
    [] j.pc \in {"assemble", "save_email", "send"} -> "Assembling"
    [] j.pc = "done" /\ j.error # "none" -> "Failed"
    [] OTHER -> "Delivered"

\* ------------------------------------------------------------------ claims
Started(r) == job[r].pc # "none"

Done(r) == job[r].pc = "done"

\* The calls worker r made to the delivery collaborator.
Deliveries(r) == {o \in outbox : o.job = r}

\* The number of rows the Ingestor finds in request r's upload.
N(r) == req[r].content.n

\* C1: a job in which the Search Adapter call raised for some row does not
\* abort there: it still hands a report of exactly N records, one per parsed
\* row and the failed row among them as a sentinel, to the delivery
\* collaborator.
C1_SearchFailureKeepsJob ==
  \A r \in Requests :
    job[r].error = "search" =>
      \E o \in Deliveries(r) :
        /\ o.row_count = N(r)
        /\ Len(o.report) = N(r)
        /\ \E k \in 1..Len(o.report) : o.report[k].sentinel

\* C2: a worker that has ended, delivered or failed at any step, has left no
\* temporary file at its file_path.
C2_FileGoneAtEnd ==
  \A r \in Requests :
    Done(r) => ~disk[job[r].file_path].exists

\* C2 witness: a worker that failed in a row's processing has ended and its
\* file is gone, while another upload's file may still be there.
C2_Witness ==
  \E r \in Requests :
    /\ Done(r)
    /\ job[r].error = "metrics"
    /\ job[r].removes = 1
    /\ ~disk[job[r].file_path].exists

\* C3: a job that failed at a step before the delivery call (parsing, a row's
\* search or metrics, assembly, the email-record write) never called the
\* delivery collaborator.
C3_NoPartialEmail ==
  \A r \in Requests :
    job[r].error \in {"parse", "search", "metrics", "assemble", "save_email"} =>
      /\ job[r].sends = 0
      /\ Deliveries(r) = {}

\* C3 witness: a job stopped by the email-record write, after every row was
\* processed and the report assembled, with nothing sent.
C3_Witness ==
  \E r \in Requests :
    /\ Done(r)
    /\ job[r].error = "save_email"
    /\ job[r].saves = 1
    /\ job[r].sends = 0
    /\ Deliveries(r) = {}

InvalidKinds == {"malformed"}

\* C4: a worker exists only for a request the Access Guard let through and
\* whose upload the Ingestor parses into at least one valid row.
C4_WorkerOnlyForParsedUpload ==
  \A r \in Requests :
    Started(r) =>
      /\ req[r].guard \in {"admit", "error"}
      /\ process_file(req[r].content).ok

\* C5: a request whose file is of an unsupported format, lacks a required
\* column, is unparseable or holds no valid row is answered with a 4xx, never
\* with the acceptance payload.
C5_InvalidUploadRejected ==
  \A r \in Requests :
    (req[r].content.kind \in InvalidKinds /\ req[r].pc = "done") =>
      req[r].status \in {400, 429}

\* C6: the acceptance response does not wait on the job: wherever the worker
\* of a request stands, not yet begun, in a search, failed or delivered, the
\* request has been answered with the acceptance payload.
C6_ResponseDoesNotWait ==
  \A r \in Requests :
    Started(r) =>
      /\ req[r].pc = "done"
      /\ req[r].status = 200
      /\ req[r].detail = "processing"

\* C6 witness: a request is answered while its worker has not begun (nothing
\* parsed, no search, no delivery).
C6_Witness ==
  \E r \in Requests :
    /\ req[r].status = 200
    /\ job[r].pc = "parse"
    /\ job[r].searched = <<>>
    /\ job[r].sends = 0

\* C7: a request whose admission check failed with an error other than a
\* denial goes on as if admitted: it is staged and its job started, and the
\* only error it can be answered with is the 500 of a failed staging.
C7_StoreFailureAdmits ==
  \A r \in Requests :
    req[r].guard = "error" =>
      /\ req[r].pc \in {"stage", "done"}
      /\ req[r].pc = "done" =>
           \/ req[r].status = 200 /\ Started(r)
           \/ req[r].status = 500 /\ req[r].detail = "file save error" /\ ~Started(r)

\* C7 witness: the store failed for a request, and its job runs.
C7_Witness ==
  \E r \in Requests :
    /\ req[r].guard = "error"
    /\ req[r].status = 200
    /\ Started(r)
    /\ <<req[r].client_ip, sha256(req[r].content)>> \notin guard_store

\* C8: a request the Access Guard denied is answered 429 and has no further
\* effect: no temporary file, no worker, no search, no email.
C8_DenialHasNoEffect ==
  \A r \in Requests :
    req[r].guard = "deny" =>
      /\ req[r].pc = "done"
      /\ req[r].status = 429
      /\ req[r].temp_file_path = 0
      /\ ~disk[NamedTemporaryFile(r)].exists
      /\ job[r] = NoJob
      /\ Deliveries(r) = {}

\* C8 witness: a denied request, answered 429, beside an admitted one.
C8_Witness ==
  \E r \in Requests :
    /\ req[r].guard = "deny"
    /\ req[r].status = 429
    /\ \E q \in Requests : q # r /\ Started(q)

\* The step in which the Access Guard is asked about request r, when the same
\* client has had the same bytes admitted before.
Resubmission(r) ==
  /\ req[r].pc = "guard"
  /\ req'[r].pc # "guard"
  /\ <<req'[r].client_ip, sha256(req[r].content)>> \in guard_store

C10_EarlyRejectionTouchesNothing ==
  \A r \in Requests :
    (\/ req[r].email # "" /\ ~EMAIL_REGEX_match(req[r].email)
     \/ req[r].content.kind = "oversized") =>
      /\ req[r].pc = "done"
      /\ req[r].status = 400
      /\ req[r].guard = "none"
      /\ req[r].client_ip = NoIp
      /\ ~disk[NamedTemporaryFile(r)].exists
      /\ job[r] = NoJob

\* C10 witness: an oversized payload was rejected with 400 after another
\* request had been through the Access Guard.
C10_Witness ==
  \E r \in Requests :
    /\ req[r].content.kind = "oversized"
    /\ req[r].status = 400
    /\ guard_store # {}

\* C11: the size check comes before the Access Guard and before any parsing:
\* a request that is at the guard, past it, or has a worker holds a payload
\* within the ceiling, and no oversized payload has a fingerprint in the
\* guard's store, bytes in a temporary file, or a worker parsing it.
C11_SizeCheckedFirst ==
  /\ \A r \in Requests :
       (req[r].pc \in {"guard", "stage"} \/ req[r].guard # "none" \/ Started(r)) =>
         /\ req[r].content.kind # "oversized"
         /\ SizeStatus(req[r].content) = 0
  /\ \A e \in guard_store :
       \A u \in Uploads : ~validate_file_size(u) => e[2] # sha256(u)
  /\ \A p \in Paths : disk[p].exists => validate_file_size(disk[p].content)
  /\ \A r \in Requests :
       req[r].content.kind = "oversized" =>
         /\ req[r].guard = "none" /\ req[r].client_ip = NoIp
         /\ job[r].pc = "none" /\ job[r].queries_df = <<>>

\* C11 witness: one request was stopped at the size check with nothing done
\* for it, while another, within the ceiling, is fingerprinted, staged and
\* being parsed.
C11_Witness ==
  \E r, q \in Requests :
    /\ req[r].content.kind = "oversized"
    /\ req[r].status = 400
    /\ req[r].guard = "none"
    /\ req[q].guard = "admit"
    /\ <<req[q].client_ip, sha256(req[q].content)>> \in guard_store
    /\ disk[NamedTemporaryFile(q)].exists
    /\ job[q].pc = "parse"

\* The rows the Ingestor yields for request r's upload, in file order.
ParsedRows(r) == process_file(req[r].content).queries_df

\* C12: a job that reached delivery called the delivery collaborator exactly
\* once, with the submitter's email, a report of one record per parsed row in
\* the rows' order, and a row count equal to the report's length.
C12_ReportMatchesRows ==
  \A r \in Requests :
    /\ job[r].sends <= 1
    /\ Cardinality(Deliveries(r)) = job[r].sends
    /\ \A o \in Deliveries(r) :
         LET rows == ParsedRows(r)
         IN /\ o.email = req[r].email
            /\ o.row_count = Len(o.report)
            /\ Len(o.report) = Len(rows)
            /\ \A k \in 1..Len(o.report) :
                 /\ o.report[k].row = k
                 /\ o.report[k].prompt = rows[k].Prompt
                 /\ o.report[k].geo_prompt =
                      create_geo_targeted_prompt(rows[k].Prompt, rows[k].Country)

\* C12 witness: a delivered job whose spreadsheet had more than one row, the
\* rows of different countries.
C12_Witness ==
  \E r \in Requests :
    /\ JobState(job[r]) = "Delivered"
    /\ job[r].sends = 1
    /\ \E o \in Deliveries(r) :
         /\ o.accepted
         /\ o.row_count = MaxRows
         /\ o.report[1].prompt # o.report[2].prompt

\* The moves between the orchestrator's states that spec.md 4.5 allows; a job
\* is Accepted when its thread is created and Parsing from the thread's first
\* statement, which the worker's position does not tell apart.
StageOrder ==
  {<<"none", "Parsing">>,
   <<"Parsing", "Processing">>, <<"Parsing", "Failed">>,
   <<"Processing", "Assembling">>, <<"Processing", "Failed">>,
   <<"Assembling", "Delivered">>, <<"Assembling", "Failed">>}

\* C13: a job's stages follow Parsing, Processing (rows 1..N in order),
\* Assembling, then Delivered or Failed: every change of stage is one of
\* StageOrder, Delivered and Failed are never left, a search call is issued
\* only once parsing has yielded the rows and only for the row after the last
\* one recorded, and assembly and the delivery call come only when all N rows
\* have their record.
C13_StagesInOrder ==
  [][\A r \in Requests :
       LET a == job[r]
           b == job'[r]
       IN /\ JobState(a) # JobState(b) => <<JobState(a), JobState(b)>> \in StageOrder
          /\ JobState(a) \in {"Delivered", "Failed"} => b = a
          /\ Len(b.searched) > Len(a.searched) =>
               /\ JobState(a) = "Processing"
               /\ a.queries_df = ParsedRows(r)
               /\ Len(a.queries_df) >= 1
               /\ b.searched = Append(a.searched, Len(a.results) + 1)
               /\ Len(b.searched) <= Len(a.queries_df)
          /\ (JobState(a) = "Processing" /\ JobState(b) = "Processing") =>
               b.i \in {a.i, a.i + 1}
          /\ JobState(b) = "Assembling" =>
               /\ Len(b.results) = Len(ParsedRows(r))
               /\ b.searched = [k \in 1..Len(ParsedRows(r)) |-> k]
          /\ b.sends > a.sends =>
               /\ a.assembled
               /\ Len(a.results) = Len(ParsedRows(r))]_vars

\* C13 witness: one job is about to deliver the assembled report of all its
\* rows while another has failed in the middle of its rows.
C13_Witness ==
  \E r, q \in Requests :
    /\ job[r].pc = "send"
    /\ job[r].assembled
    /\ job[r].searched = [k \in 1..MaxRows |-> k]
    /\ Len(job[r].results) = MaxRows
    /\ JobState(job[q]) = "Failed"
    /\ job[q].error \in {"search", "metrics"}

\* The Search Adapter calls job j has issued that have not ended: a call that
\* returns leaves a record, a call that raises ends the job.
InFlight(j) == Len(j.searched) - Len(j.results)

\* The jobs whose worker is running.
ActiveJobs == {r \in Requests : Started(r) /\ ~Done(r)}

RECURSIVE TotalInFlight(_)
TotalInFlight(rs) ==
  IF rs = {} THEN 0
  ELSE LET r == CHOOSE x \in rs : TRUE
       IN InFlight(job[r]) + TotalInFlight(rs \ {r})

\* C14: within a job the rows are processed one after another: the calls
\* issued so far are those of rows 1, 2, ... in order, the records those of
\* the rows before the current one, a call is in flight exactly while the
\* worker waits in it, and so each job has at most one call in flight and
\* all jobs together no more than there are active jobs.
C14_OneCallInFlightPerJob ==
  /\ \A r \in Requests :
       LET j == job[r]
       IN /\ InFlight(j) \in {0, 1}
          /\ InFlight(j) = 1 <=> j.pc = "searching"
          /\ j.searched = [k \in 1..Len(j.searched) |-> k]
          /\ \A k \in 1..Len(j.results) : j.results[k].row = k
          /\ j.pc \in {"search", "searching"} => Len(j.results) = j.i - 1
  /\ TotalInFlight(Requests) <= Cardinality(ActiveJobs)

\* C14 witness: two jobs each wait in a Search Adapter call at the same time,
\* one of them for its second row.
C14_Witness ==
  \E r, q \in Requests :
    /\ r # q
    /\ job[r].pc = "searching" /\ job[r].i = 2 /\ Len(job[r].results) = 1
    /\ job[q].pc = "searching"
    /\ TotalInFlight(Requests) = 2

\* C15: a job is Delivered only when its one delivery call returned; a job
\* whose delivery call raised has ended Failed at that step, with its
\* temporary file removed and nothing else done about the failure: no second
\* call, and the request's answer is the acceptance it already was.
C15_DeliveredOnlyIfAccepted ==
  \A r \in Requests :
    /\ JobState(job[r]) = "Delivered" =>
         /\ job[r].sends = 1
         /\ \A o \in Deliveries(r) : o.accepted
         /\ Deliveries(r) # {}
    /\ \A o \in Deliveries(r) :
         ~o.accepted =>
           /\ JobState(job[r]) = "Failed"
           /\ job[r].error = "send"
           /\ job[r].sends = 1
           /\ job[r].removes = 1
           /\ ~disk[job[r].file_path].exists
           /\ req[r].status = 200

\* C15 witness: the delivery call of a job raised after its record was
\* stored; the job has failed and its file is gone.
C15_Witness ==
  \E r \in Requests :
    /\ job[r].error = "send"
    /\ JobState(job[r]) = "Failed"
    /\ \E o \in Deliveries(r) : ~o.accepted /\ o.row_count >= 1
    /\ job[r].saves = 1
    /\ ~disk[job[r].file_path].exists

\* C16: nothing is retried. In every step, the rows a job has called the
\* Search Adapter for are all different and its delivery calls at most one; a
\* job that has ended is never run again; and a job comes into being only in
\* the step that answers its own request with the acceptance payload, so a
\* failed upload is processed again only through a new submission.
C16_NoRetries ==
  [][\A r \in Requests :
       LET a == job[r]
           b == job'[r]
       IN /\ \A k, l \in 1..Len(b.searched) : k # l => b.searched[k] # b.searched[l]
          /\ b.sends <= 1
          /\ Cardinality({o \in outbox' : o.job = r}) <= 1
          /\ a.pc = "done" => b = a
          /\ (a.pc = "none" /\ b.pc # "none") =>
               /\ req[r].pc = "stage"
               /\ req'[r].status = 200
               /\ b.pc = "parse"]_vars

\* C16 witness: a job failed in a search, no report went out for it, and the
\* same bytes, submitted again by the client, have a job of their own.
C16_Witness ==
  \E r, q \in Requests :
    /\ r < q
    /\ JobState(job[r]) = "Failed"
    /\ job[r].error = "search"
    /\ Deliveries(r) = {}
    /\ req[q].content = req[r].content
    /\ req[q].client_ip = req[r].client_ip
    /\ Started(q)

\* The report of request r's upload when its job runs with no other job
\* around: one record per parsed row, in order.
AloneReport(r) ==
  [k \in 1..Len(ParsedRows(r)) |->
     [row |-> k,
      prompt |-> ParsedRows(r)[k].Prompt,
      geo_prompt |-> create_geo_targeted_prompt(ParsedRows(r)[k].Prompt,
                                                ParsedRows(r)[k].Country),
      sentinel |-> FALSE]]

\* C17: a request has a worker exactly when it was answered with the
\* acceptance payload, and none when it was answered 400, 429 or 500; a
\* worker holds its own request's email, client and file and no other
\* worker's file; and however the workers' steps interleave, the records a
\* job has gathered and the report it delivers are those of running it alone.
C17_OneIndependentWorkerPerAccept ==
  \A r \in Requests :
    /\ Started(r) <=> (req[r].pc = "done" /\ req[r].status = 200)
    /\ Started(r) <=> req[r].started
    /\ req[r].status \in {400, 429, 500} => job[r] = NoJob
    /\ Started(r) =>
         /\ job[r].email = req[r].email
         /\ job[r].ip = req[r].client_ip
         /\ job[r].file_path = req[r].temp_file_path
         /\ \A q \in Requests : (q # r /\ Started(q)) => job[q].file_path # job[r].file_path
         /\ job[r].results # <<>> =>
              LET alone == AloneReport(r)
              IN /\ Len(job[r].results) <= Len(alone)
                 /\ job[r].results = SubSeq(alone, 1, Len(job[r].results))
    /\ \A o \in Deliveries(r) : o.report = AloneReport(r)

\* C17 witness: of two jobs, the later one has
\* delivered its report while the earlier one is still between its rows.
C17_Witness ==
  \E r, q \in Requests :
    /\ r < q
    /\ job[r].pc = "search"
    /\ Len(job[r].results) = 1
    /\ JobState(job[q]) = "Delivered"
    /\ \E o \in Deliveries(q) : o.accepted /\ o.report = AloneReport(q)

\* C18: a temporary file is its job's alone. While a job runs, from before
\* it parses to its last step, its file is there and holds its own request's
\* bytes, so no other job has removed or replaced it; what a job has parsed
\* is its own upload; and a file holding an upload's bytes is the file of
\* exactly one job, which is still running.
C18_FileOwnedByItsJob ==
  /\ \A r \in Requests :
       /\ r \in ActiveJobs =>
            /\ disk[job[r].file_path].exists
            /\ disk[job[r].file_path].content = req[r].content
            /\ job[r].removes = 0
       /\ job[r].queries_df # <<>> => job[r].queries_df = ParsedRows(r)
  /\ \A p \in Paths :
       (disk[p].exists /\ disk[p].content # NoUpload) =>
         /\ Cardinality({r \in Requests : Started(r) /\ job[r].file_path = p}) = 1
         /\ \A r \in Requests : (Started(r) /\ job[r].file_path = p) => r \in ActiveJobs

\* C18 witness: a job has ended and removed its file while another job has
\* not yet parsed its own, which is still there.
C18_Witness ==
  \E r, q \in Requests :
    /\ r # q
    /\ Done(r)
    /\ job[r].removes = 1
    /\ ~disk[job[r].file_path].exists
    /\ job[q].pc = "parse"
    /\ disk[job[q].file_path].exists
    /\ disk[job[q].file_path].content = req[q].content

\* The steps of the worker's try body that can raise.
TrySteps == {"parse", "search", "metrics", "assemble", "save_email", "send"}

\* C19: a job attempts the removal of its temporary file exactly once, in its
\* last step and not before, and an attempt that finds the file gone is no
\* error: whether or not os.remove raised, the job has ended as its try body
\* left it, Delivered when the delivery call returned and Failed at the step
\* that raised otherwise, and the file is gone.
C19_RemovalOnceAndIdempotent ==
  \A r \in Requests :
    /\ job[r].removes <= 1
    /\ job[r].removes = 1 <=> Done(r)
    /\ job[r].remove_raised => Done(r)
    /\ job[r].error \in TrySteps \cup {"none"}
    /\ Done(r) =>
         /\ ~disk[job[r].file_path].exists
         /\ JobState(job[r]) = "Delivered" <=> (\E o \in Deliveries(r) : o.accepted)
         /\ JobState(job[r]) = "Failed" <=> job[r].error \in TrySteps

\* C19 witness: the file of a job was taken from the temp directory while
\* the report was being sent; the removal at the end found nothing, and the
\* job is Delivered.
C19_Witness ==
  \E r \in Requests :
    /\ Done(r)
    /\ job[r].removes = 1
    /\ job[r].remove_raised
    /\ JobState(job[r]) = "Delivered"
    /\ \E o \in Deliveries(r) : o.accepted

\* The six countries with a canned preamble.
KnownCountries ==
  {<<"USA">>, <<"UK">>, <<"Germany">>, <<"France">>, <<"Canada">>, <<"Australia">>}

\* A text is non-empty when one of its pieces is.
NonEmpty(text) == \E k \in 1..Len(text) : text[k] # ""

\* C20: create_geo_targeted_prompt returns for every prompt and country, the
\* empty ones too, a non-empty text: for a country that is exactly one of the
\* six known names, that country's canned preamble, then ": ", then the
\* prompt unchanged; for any other country the generic preamble with the
\* country as given, then ": ", then the prompt unchanged.
C20_GeoPromptShape ==
  (call.f = "create_geo_targeted_prompt" /\ call.returned) =>
    LET prompt == call.args[1]
        country == call.args[2]
    IN /\ NonEmpty(call.result)
       /\ country \in KnownCountries =>
            \E e \in country_prompts :
              /\ e[1] = country
              /\ call.result = e[2] \o <<": ">> \o prompt
       /\ country \notin KnownCountries =>
            call.result =
              <<"Answer as if responding to someone in ">> \o country \o <<": ">> \o prompt
       /\ SubSeq(call.result, Len(call.result) - Len(prompt) + 1, Len(call.result)) = prompt

\* C20 witness: the builder has returned for an empty prompt and an empty
\* country, and the result is the generic preamble and the separator.
C20_Witness ==
  /\ call.f = "create_geo_targeted_prompt"
  /\ call.returned
  /\ call.args = <<<<>>, <<>>>>
  /\ call.result = <<"Answer as if responding to someone in ", ": ">>

\* C21: a request answered with an error (400, 429 or 500) has left no
\* temporary file behind: the file made for it, if one was made, is gone
\* when the answer is given, also when staging failed in the write, after the
\* file was created and with no job to remove it.
C21_NoFileAfterError ==
  \A r \in Requests :
    (req[r].pc = "done" /\ req[r].status \in {400, 429, 500}) =>
      ~disk[NamedTemporaryFile(r)].exists

\* The record db.save_email writes for job j.
EmailRecord(j) == <<j.email, j.ip>>

\* C22: a job writes the submitter's email/IP record at most once, only when
\* every row has its record and the report is assembled, and before the
\* delivery call: a job that is about to deliver or has called delivery has
\* written the record, a job that failed before or in assembly has made no
\* write, a job whose delivery call raised has the record in the store, and a
\* job whose write raised never called delivery.
C22_EmailRecordBeforeDelivery ==
  /\ \A r \in Requests :
       LET j == job[r]
       IN /\ j.saves <= 1
          /\ j.pc = "save_email" =>
               /\ j.saves = 0
               /\ j.assembled
               /\ Len(j.results) = Len(ParsedRows(r))
          /\ (j.saves = 1 /\ ~Done(r)) =>
               /\ j.pc = "send"
               /\ j.assembled
               /\ Len(j.results) = Len(ParsedRows(r))
          /\ (j.pc = "send" \/ j.sends = 1) =>
               /\ j.saves = 1
               /\ EmailRecord(j) \in email_db
          /\ j.error \in {"parse", "search", "metrics", "assemble"} => j.saves = 0
          /\ j.error = "send" => (j.saves = 1 /\ EmailRecord(j) \in email_db)
          /\ j.error = "save_email" =>
               (j.saves = 1 /\ j.sends = 0 /\ Deliveries(r) = {})
  /\ \A e \in email_db :
       \E r \in Requests :
         /\ EmailRecord(job[r]) = e
         /\ job[r].saves = 1
         /\ job[r].error # "save_email"

\* C22 witness: one job has written its record and not yet called delivery,
\* while another failed in a row and wrote nothing.
C22_Witness ==
  \E r, q \in Requests :
    /\ job[r].pc = "send"
    /\ job[r].saves = 1
    /\ job[r].sends = 0
    /\ EmailRecord(job[r]) \in email_db
    /\ Deliveries(r) = {}
    /\ job[q].error = "search"
    /\ job[q].saves = 0

\* The first comma-separated entry of a header value: what stands before its
\* first comma, or all of it when it has none.
IsFirstEntry(e, h) ==
  \E i \in 0..Len(h) :
    /\ e = SubSeq(h, 1, i)
    /\ \A k \in 1..i : h[k] # ","
    /\ i = Len(h) \/ h[i + 1] = ","

\* t is e without the spaces around it.
IsTrimmed(t, e) ==
  \E a, b \in 0..Len(e) :
    /\ a + b <= Len(e)
    /\ \A k \in 1..a : e[k] = " "
    /\ \A k \in (Len(e) - b + 1)..Len(e) : e[k] = " "
    /\ t = SubSeq(e, a + 1, Len(e) - b)
    /\ t # <<>> => (t[1] # " " /\ t[Len(t)] # " ")

\* The client identity of a request with header h (<<>> when absent or
\* empty) from peer p (<<>> when unknown): the trimmed first entry of the
\* header, else the peer host, else "0.0.0.0".
IsIdentityOf(id, h, p) ==
  IF h # <<>> THEN \E i \in 0..Len(h) : IsFirstEntry(SubSeq(h, 1, i), h)
                                        /\ IsTrimmed(id, SubSeq(h, 1, i))
  ELSE IF p # <<>> THEN id = p
  ELSE id = <<"0", ".", "0", ".", "0", ".", "0">>

\* The requests the Access Guard was asked about and that still hold what
\* they asked with (a failed staging drops it).
Asked(r) == req[r].guard # "none" /\ req[r].status # 500

\* C23: the identity a request is presented to the Access Guard with, and
\* the one its job is given, is the trimmed first entry of its
\* x-forwarded-for header when it has one, else its peer host, else
\* "0.0.0.0"; the guard's entry of an admitted request is under that identity;
\* and two requests of one peer with the same bytes whose headers' first
\* entries differ after trimming are presented under different identities.
C23_IdentityFromForwardedFor ==
  /\ \A r \in Requests :
       Asked(r) =>
         /\ IsIdentityOf(req[r].client_ip, req[r].forwarded_for, req[r].client)
         /\ req[r].guard = "admit" =>
              <<req[r].client_ip, sha256(req[r].content)>> \in guard_store
         /\ Started(r) => job[r].ip = req[r].client_ip
  /\ \A r, q \in Requests :
       (/\ Asked(r) /\ Asked(q)
        /\ req[r].client = req[q].client
        /\ req[r].content = req[q].content
        /\ req[r].forwarded_for # <<>> /\ req[q].forwarded_for # <<>>
        /\ ~IsIdentityOf(req[r].client_ip, req[q].forwarded_for, req[q].client)) =>
         /\ req[r].client_ip # req[q].client_ip
         /\ <<req[r].client_ip, sha256(req[r].content)>>
              # <<req[q].client_ip, sha256(req[q].content)>>

\* C23 witness: with retry-same-file disabled, the same bytes came twice from
\* one peer under headers that name different first entries, and the guard,
\* its store working, admitted both, each under the name its header gave.
C23_Witness ==
  \E r, q \in Requests :
    /\ r # q
    /\ ~ALLOW_RETRY_SAME_FILE
    /\ req[r].client = <<"a">> /\ req[q].client = <<"a">>
    /\ req[r].content = req[q].content
    /\ req[r].content.kind = "rows"
    /\ req[r].forwarded_for = <<" ", "b", " ", ",", "a">>
    /\ req[q].forwarded_for = <<"c", ",", "b">>
    /\ req[r].client_ip = <<"b">> /\ req[q].client_ip = <<"c">>
    /\ req[r].guard = "admit" /\ req[q].guard = "admit"
    /\ Started(r) /\ Started(q)
    /\ {<<<<"b">>, sha256(req[r].content)>>, <<<<"c">>, sha256(req[q].content)>>}
         \subseteq guard_store

====
